---- MODULE Spec2Model ----
(***************************************************************************)
(* The agent control loop of KnowYourStats (agent/agent_core.py):          *)
(* AgenticAI.run and the helpers it calls, one action per stretch of code  *)
(* between two calls of the external text-generation service; and the      *)
(* callers of the loop and their neighbours: the Celery task               *)
(* process_agent_message (agent/tasks.py), ChatConsumer                    *)
(* (chat/consumers.py) and the Celery task process_dataset                 *)
(* (data_manager/tasks.py), each under a specification of its own.         *)
(***************************************************************************)
EXTENDS Integers, Sequences, FiniteSets, TLC

VARIABLES
    maxIterations,          \* settings.MAX_AGENT_ITERATIONS
    pc,                     \* position of run()
    outcome,                \* "running", "returned", "transport_failure", "error"
    plan,                   \* local plan of run()
    iteration,              \* local iteration of run()
    investigation_complete, \* local investigation_complete of run()
    next_action,            \* local next_action of run()
    reasoning_trace,        \* self.reasoning_trace
    tools_used,             \* self.tools_used
    findings,               \* self.findings
    returned,               \* the value run() returned
    calls,                  \* history: the external calls issued, in order
    \* process_agent_message (agent/tasks.py)
    task_state,             \* "queued", "running", "retry", "succeeded", "failed"
    retries,                \* self.request.retries
    task_result,            \* the value the task returned
    \* a caller that calls run() again on the same AgenticAI
    runs,                   \* how many times run() was called on the object
    first_result,           \* history: the first result as it was when returned
    \* two AgenticAI objects whose runs interleave
    active,                 \* the agent whose run() holds the variables above
    parked,                 \* agent -> the locals of its run() while it waits
    attr,                   \* agent -> the objects its attributes refer to
    heap,                   \* object -> contents, as last written back
    \* ChatConsumer (chat/consumers.py)
    chat_pc,                \* position of receive / handle_user_message
    data,                   \* the decoded frame in hand
    messages,               \* the Message rows of the chat session
    frames,                 \* what was sent to the client, in order
    \* process_dataset (data_manager/tasks.py)
    db,                     \* the Dataset row
    dtask                   \* task -> state of that process_dataset task

\* The variables of AgenticAI.run.
runVars == <<maxIterations, pc, outcome, plan, iteration, investigation_complete,
             next_action, reasoning_trace, tools_used, findings, returned, calls>>

taskVars == <<task_state, retries, task_result>>
rerunVars == <<runs, first_result>>
concVars == <<active, parked, attr, heap>>
chatVars == <<chat_pc, data, messages, frames>>
datasetVars == <<db, dtask>>

\* Everything outside AgenticAI.run.
callerVars == <<taskVars, rerunVars, concVars, chatVars, datasetVars>>

vars == <<runVars, callerVars>>

\* Largest iteration ceiling the model configures.
MaxIterBound == 4

---------------------------------------------------------------------------
(* Python values, tagged by type.                                          *)

PyNone == [t |-> "None"]
PyBool(b) == [t |-> "bool", v |-> b]
PyInt(n) == [t |-> "int", v |-> n]
PyStr(s) == [t |-> "str", v |-> s]
PyList(s) == [t |-> "list", v |-> s]
PyDict(d) == [t |-> "dict", v |-> d]

\* A local variable that is not bound yet.
Unbound == [t |-> "unbound"]

IsDict(x) == x.t = "dict"

HasKey(x, k) == IsDict(x) /\ k \in DOMAIN x.v

PyEq(a, b) == a.t = b.t /\ (a.t \in {"None", "unbound"} \/ a.v = b.v)

\* Python truth value testing, as `if value:` applies it.
Truthy(x) ==
    CASE x.t = "None" -> FALSE
      [] x.t = "bool" -> x.v
      [] x.t = "int" -> x.v # 0
      [] x.t = "str" -> x.v # ""
      [] x.t = "list" -> Len(x.v) # 0
      [] x.t = "dict" -> DOMAIN x.v # {}
      [] OTHER -> FALSE

\* value[key]: KeyError on a dict without the key, TypeError on anything
\* that is not a dict.
Subscript(x, k) ==
    IF HasKey(x, k) THEN [ok |-> TRUE, val |-> x.v[k]] ELSE [ok |-> FALSE]

\* value.get(key, default): AttributeError on anything that is not a dict.
DictGet(x, k, default) ==
    IF ~IsDict(x) THEN [ok |-> FALSE]
    ELSE [ok |-> TRUE, val |-> IF k \in DOMAIN x.v THEN x.v[k] ELSE default]

---------------------------------------------------------------------------
(* Response texts of the external service, and json.loads on them.         *)

ProseText == "Let's look at revenue trends"
NullText == "null"
ListText == "[]"
PlanText == "{\"main_objective\": \"revenue\", \"key_questions\": []}"
NoActionText == "{\"target\": \"sales\"}"
ActionText(kind) ==
    "{\"action\": \"" \o kind \o
    "\", \"target\": \"sales\", \"method\": \"trend\", \"reasoning\": \"next\"}"
InsightText == "{\"insight\": \"revenue is up\"}"
ContinueTrueText == "{\"continue\": true, \"reasoning\": \"more\"}"
ContinueFalseText == "{\"continue\": false, \"reasoning\": \"enough\"}"
ContinueStrText == "{\"continue\": \"false\", \"reasoning\": \"enough\"}"
ContinueNullText == "{\"continue\": null}"
NoContinueText == "{\"reasoning\": \"enough\"}"

ActionKinds == {"analyze", "calculate", "compare", "investigate_anomaly", "complete"}

\* The kinds the selector is seen to answer: the five of the prompt and one
\* that is none of them.
SelectedKinds == ActionKinds \cup {"dance"}

ActionDict(kind) ==
    PyDict([action |-> PyStr(kind), target |-> PyStr("sales"),
            method |-> PyStr("trend"), reasoning |-> PyStr("next")])

\* json.loads(text): [ok |-> FALSE] is the exception it raises on text that
\* is not JSON.
JsonLoads(text) ==
    CASE text = NullText -> [ok |-> TRUE, val |-> PyNone]
      [] text = ListText -> [ok |-> TRUE, val |-> PyList(<<>>)]
      [] text = PlanText ->
            [ok |-> TRUE,
             val |-> PyDict([main_objective |-> PyStr("revenue"),
                             key_questions |-> PyList(<<>>)])]
      [] text = NoActionText ->
            [ok |-> TRUE, val |-> PyDict([target |-> PyStr("sales")])]
      [] \E k \in SelectedKinds : text = ActionText(k) ->
            [ok |-> TRUE,
             val |-> ActionDict(CHOOSE k \in SelectedKinds : text = ActionText(k))]
      [] text = InsightText ->
            [ok |-> TRUE, val |-> PyDict([insight |-> PyStr("revenue is up")])]
      [] text = ContinueTrueText ->
            [ok |-> TRUE,
             val |-> PyDict([continue |-> PyBool(TRUE), reasoning |-> PyStr("more")])]
      [] text = ContinueFalseText ->
            [ok |-> TRUE,
             val |-> PyDict([continue |-> PyBool(FALSE), reasoning |-> PyStr("enough")])]
      [] text = ContinueStrText ->
            [ok |-> TRUE,
             val |-> PyDict([continue |-> PyStr("false"), reasoning |-> PyStr("enough")])]
      [] text = ContinueNullText ->
            [ok |-> TRUE, val |-> PyDict([continue |-> PyNone])]
      [] text = NoContinueText ->
            [ok |-> TRUE, val |-> PyDict([reasoning |-> PyStr("enough")])]
      [] OTHER -> [ok |-> FALSE]

\* What the service is seen to answer at each call site.
PlanTexts == {ProseText, NullText, PlanText}
SelectTexts == {ProseText, ListText, NoActionText} \cup {ActionText(k) : k \in SelectedKinds}
AnalysisTexts == {ProseText, ListText, InsightText}
EvalTexts == {ProseText, ListText, ContinueTrueText, ContinueFalseText,
              ContinueStrText, ContinueNullText, NoContinueText}
ReportTexts == {"# Report"}

\* The record of one external call: where it was issued and what came back.
Call(site, resp) == [site |-> site, ok |-> resp.ok, text |-> resp.text]

---------------------------------------------------------------------------
(* One round trip to the service: a text, or a transport failure raised    *)
(* by client.messages.create.                                              *)

Responses(texts) ==
    {[ok |-> TRUE, text |-> t] : t \in texts} \cup {[ok |-> FALSE, text |-> ""]}

---------------------------------------------------------------------------
(* The helpers of AgenticAI, each computed from the response it receives.  *)

\* _create_analysis_plan whose fallback is the bare text, not a dict
\* carrying it.
CreateAnalysisPlanBareText(text) ==
    LET d == JsonLoads(text)
    IN  IF d.ok THEN d.val ELSE PyStr(text)

\* _create_analysis_plan, from the response text on.
CreateAnalysisPlan(text) ==
    LET d == JsonLoads(text)
    IN  IF d.ok THEN d.val ELSE PyDict([raw_plan |-> PyStr(text)])

\* _decide_next_action, from the response text on.
DecideNextAction(text) ==
    LET d == JsonLoads(text)
    IN  IF d.ok THEN d.val
        ELSE PyDict([action |-> PyStr("complete"),
                     reasoning |-> PyStr("Unable to parse action, completing analysis")])

\* _perform_analysis, from the response text on.
PerformAnalysis(text) ==
    LET d == JsonLoads(text)
    IN  IF d.ok THEN d.val ELSE PyDict([insight |-> PyStr(text)])

PerformCalculation(action) ==
    PyDict([calculation |-> PyStr("performed"), action |-> action])

PerformComparison(action) ==
    PyDict([comparison |-> PyStr("completed"), action |-> action])

InvestigateAnomaly(action) ==
    PyDict([anomaly_investigation |-> PyStr("completed"), action |-> action])

\* action.get('action', 'analyze') in _execute_action.
ActionType(action) == DictGet(action, "action", PyStr("analyze")).val

\* Whether _execute_action issues an external call: only _perform_analysis does.
ExecuteCalls(action) == PyEq(ActionType(action), PyStr("analyze"))

\* _execute_action whose final else falls back to the default provider
\* instead of tagging the result.
ExecuteActionUnknownAnalyzes(action, text) ==
    LET action_type == ActionType(action)
    IN  CASE PyEq(action_type, PyStr("calculate")) -> PerformCalculation(action)
          [] PyEq(action_type, PyStr("compare")) -> PerformComparison(action)
          [] PyEq(action_type, PyStr("investigate_anomaly")) -> InvestigateAnomaly(action)
          [] OTHER -> PerformAnalysis(text)

\* The result _execute_action computes; text is the response _perform_analysis got.
ExecuteAction(action, text) ==
    LET action_type == ActionType(action)
    IN  CASE PyEq(action_type, PyStr("analyze")) -> PerformAnalysis(text)
          [] PyEq(action_type, PyStr("calculate")) -> PerformCalculation(action)
          [] PyEq(action_type, PyStr("compare")) -> PerformComparison(action)
          [] PyEq(action_type, PyStr("investigate_anomaly")) -> InvestigateAnomaly(action)
          [] OTHER -> PyDict([status |-> PyStr("unknown_action")])

\* _should_continue_investigation with the ceiling compared against
\* MAX_AGENT_ITERATIONS instead of MAX_AGENT_ITERATIONS - 1.
ShouldContinueOffByOne(iter, resp) ==
    IF iter >= maxIterations
    THEN [called |-> FALSE, raised |-> FALSE, value |-> PyBool(FALSE)]
    ELSE IF ~resp.ok
    THEN [called |-> TRUE, raised |-> TRUE, value |-> Unbound]
    ELSE LET d == JsonLoads(resp.text)
             g == IF d.ok THEN DictGet(d.val, "continue", PyBool(FALSE))
                  ELSE [ok |-> FALSE]
         IN  [called |-> TRUE, raised |-> FALSE,
              value |-> IF g.ok THEN g.val ELSE PyBool(FALSE)]

\* _should_continue_investigation without the ceiling test: the service is
\* always asked.
ShouldContinueNoCeiling(iter, resp) ==
    IF ~resp.ok
    THEN [called |-> TRUE, raised |-> TRUE, value |-> Unbound]
    ELSE LET d == JsonLoads(resp.text)
             g == IF d.ok THEN DictGet(d.val, "continue", PyBool(FALSE))
                  ELSE [ok |-> FALSE]
         IN  [called |-> TRUE, raised |-> FALSE,
              value |-> IF g.ok THEN g.val ELSE PyBool(FALSE)]

\* _should_continue_investigation with decision.get('continue', True).
ShouldContinueDefaultsTrue(iter, resp) ==
    IF iter >= maxIterations - 1
    THEN [called |-> FALSE, raised |-> FALSE, value |-> PyBool(FALSE)]
    ELSE IF ~resp.ok
    THEN [called |-> TRUE, raised |-> TRUE, value |-> Unbound]
    ELSE LET d == JsonLoads(resp.text)
             g == IF d.ok THEN DictGet(d.val, "continue", PyBool(TRUE))
                  ELSE [ok |-> FALSE]
         IN  [called |-> TRUE, raised |-> FALSE,
              value |-> IF g.ok THEN g.val ELSE PyBool(FALSE)]

\* _should_continue_investigation: resp is what the service answers if it is
\* asked. called: whether the external call is issued; raised: whether the
\* call's transport failure leaves the function; value: what is returned.
ShouldContinueInvestigation(iter, resp) ==
    IF iter >= maxIterations - 1
    THEN [called |-> FALSE, raised |-> FALSE, value |-> PyBool(FALSE)]
    ELSE IF ~resp.ok
    THEN [called |-> TRUE, raised |-> TRUE, value |-> Unbound]
    ELSE LET d == JsonLoads(resp.text)
             g == IF d.ok THEN DictGet(d.val, "continue", PyBool(FALSE))
                  ELSE [ok |-> FALSE]
         IN  [called |-> TRUE, raised |-> FALSE,
              value |-> IF g.ok THEN g.val ELSE PyBool(FALSE)]

\* The finding key built from the iteration before the increment.
FindingKeyOffByOne(i) == "iteration_" \o ToString(i - 1)

\* The finding key built without the iteration index.
FindingKeyConstant(i) == "iteration"

\* f"iteration_{iteration}"
FindingKey(i) == "iteration_" \o ToString(i)

PlanningEntry(p) == [phase |-> "planning", content |-> p]

InvestigationEntry(i, action, result) ==
    [phase |-> "investigation", iteration |-> i, action |-> action, result |-> result]

---------------------------------------------------------------------------
(* AgenticAI.__init__ and the configuration.                               *)

NoFindings == [k \in {} |-> PyNone]

\* An AgenticAI as __init__ leaves it, its run() about to start.
AgentBuilt ==
    /\ pc = "plan"
    /\ outcome = "running"
    /\ plan = Unbound
    /\ iteration = 0
    /\ investigation_complete = FALSE
    /\ next_action = Unbound
    /\ reasoning_trace = <<>>
    /\ tools_used = <<>>
    /\ findings = NoFindings
    /\ returned = Unbound
    /\ calls = <<>>

\* No process_agent_message task, no second call of run(), no second
\* agent, no chat connection, no dataset.
NoTask == task_state = "none" /\ retries = 0 /\ task_result = Unbound
NoRerun == runs = 1 /\ first_result = Unbound
NoSecondAgent == active = 1 /\ parked = <<>> /\ attr = <<>> /\ heap = <<>>
NoChat == chat_pc = "none" /\ data = Unbound /\ messages = <<>> /\ frames = <<>>
NoDataset == db = Unbound /\ dtask = <<>>

Init ==
    /\ maxIterations \in 0..MaxIterBound
    /\ AgentBuilt
    /\ NoTask /\ NoRerun /\ NoSecondAgent /\ NoChat /\ NoDataset

\* client.messages.create raises at call site `site` and nothing catches it:
\* the exception leaves run().
TransportFailure(site, resp) ==
    /\ outcome' = "transport_failure"
    /\ calls' = Append(calls, Call(site, resp))

---------------------------------------------------------------------------
(* AgenticAI.run                                                           *)

\* Step 1: the planning phase, and the locals of step 2.
Planning ==
    /\ pc = "plan" /\ outcome = "running"
    /\ \E resp \in Responses(PlanTexts) :
         IF ~resp.ok
         THEN /\ TransportFailure("plan", resp)
              /\ UNCHANGED <<maxIterations, pc, plan, iteration, investigation_complete,
                             next_action, reasoning_trace, tools_used, findings, returned>>
         ELSE /\ plan' = CreateAnalysisPlan(resp.text)
              /\ reasoning_trace' = Append(reasoning_trace, PlanningEntry(plan'))
              /\ investigation_complete' = FALSE
              /\ iteration' = 0
              /\ calls' = Append(calls, Call("plan", resp))
              /\ pc' = "loop"
              /\ UNCHANGED <<maxIterations, outcome, next_action, tools_used,
                             findings, returned>>

\* The loop test without `not investigation_complete`.
LoopTestIgnoresComplete ==
    /\ pc = "loop" /\ outcome = "running"
    /\ pc' = IF iteration < maxIterations THEN "decide" ELSE "synthesize"
    /\ UNCHANGED <<maxIterations, outcome, plan, iteration, investigation_complete,
                   next_action, reasoning_trace, tools_used, findings, returned, calls>>

\* while not investigation_complete and iteration < max_iterations
LoopTest ==
    /\ pc = "loop" /\ outcome = "running"
    /\ pc' = IF ~investigation_complete /\ iteration < maxIterations
             THEN "decide" ELSE "synthesize"
    /\ UNCHANGED <<maxIterations, outcome, plan, iteration, investigation_complete,
                   next_action, reasoning_trace, tools_used, findings, returned, calls>>

\* Decide without the break: a 'complete' action is executed like any other.
DecideNoBreak ==
    /\ pc = "decide" /\ outcome = "running"
    /\ iteration' = iteration + 1
    /\ \E resp \in Responses(SelectTexts) :
         IF ~resp.ok
         THEN /\ TransportFailure("select", resp)
              /\ UNCHANGED <<pc, investigation_complete, next_action>>
         ELSE LET action == DecideNextAction(resp.text)
                  kind == Subscript(action, "action")
              IN  /\ next_action' = action
                  /\ calls' = Append(calls, Call("select", resp))
                  /\ IF ~kind.ok
                     THEN /\ outcome' = "error"
                          /\ UNCHANGED <<pc, investigation_complete>>
                     ELSE /\ pc' = "execute"
                          /\ investigation_complete' =
                                (investigation_complete \/ PyEq(kind.val, PyStr("complete")))
                          /\ UNCHANGED outcome
    /\ UNCHANGED <<maxIterations, plan, reasoning_trace, tools_used, findings, returned>>

\* Decide returning from run() on 'complete' instead of leaving the loop.
DecideReturnsOnComplete ==
    /\ pc = "decide" /\ outcome = "running"
    /\ iteration' = iteration + 1
    /\ \E resp \in Responses(SelectTexts) :
         IF ~resp.ok
         THEN /\ TransportFailure("select", resp)
              /\ UNCHANGED <<pc, investigation_complete, next_action, returned>>
         ELSE LET action == DecideNextAction(resp.text)
                  kind == Subscript(action, "action")
              IN  /\ next_action' = action
                  /\ calls' = Append(calls, Call("select", resp))
                  /\ IF ~kind.ok
                     THEN /\ outcome' = "error"
                          /\ UNCHANGED <<pc, investigation_complete, returned>>
                     ELSE IF PyEq(kind.val, PyStr("complete"))
                     THEN /\ investigation_complete' = TRUE
                          /\ pc' = "done"
                          /\ outcome' = "returned"
                          /\ returned' = [report |-> "",
                                          reasoning_trace |-> reasoning_trace,
                                          tools_used |-> tools_used,
                                          findings |-> findings]
                     ELSE /\ pc' = "execute"
                          /\ UNCHANGED <<outcome, investigation_complete, returned>>
    /\ UNCHANGED <<maxIterations, plan, reasoning_trace, tools_used, findings>>

\* Decide with client.messages.create inside the try: a transport failure
\* takes the 'complete' fallback instead of leaving run().
DecideSwallowsFailure ==
    /\ pc = "decide" /\ outcome = "running"
    /\ iteration' = iteration + 1
    /\ \E resp \in Responses(SelectTexts) :
         LET action == DecideNextAction(resp.text)
             kind == Subscript(action, "action")
         IN  /\ next_action' = action
             /\ calls' = Append(calls, Call("select", resp))
             /\ IF ~kind.ok
                THEN /\ outcome' = "error"
                     /\ UNCHANGED <<pc, investigation_complete>>
                ELSE IF PyEq(kind.val, PyStr("complete"))
                THEN /\ investigation_complete' = TRUE
                     /\ pc' = "synthesize"
                     /\ UNCHANGED outcome
                ELSE /\ pc' = "execute"
                     /\ UNCHANGED <<outcome, investigation_complete>>
    /\ UNCHANGED <<maxIterations, plan, reasoning_trace, tools_used, findings, returned>>

\* iteration += 1; next_action = self._decide_next_action(plan, iteration);
\* if next_action['action'] == 'complete': ... break
Decide ==
    /\ pc = "decide" /\ outcome = "running"
    /\ iteration' = iteration + 1
    /\ \E resp \in Responses(SelectTexts) :
         IF ~resp.ok
         THEN /\ TransportFailure("select", resp)
              /\ UNCHANGED <<pc, investigation_complete, next_action>>
         ELSE LET action == DecideNextAction(resp.text)
                  kind == Subscript(action, "action")
              IN  /\ next_action' = action
                  /\ calls' = Append(calls, Call("select", resp))
                  /\ IF ~kind.ok
                     THEN \* KeyError or TypeError of next_action['action']
                          /\ outcome' = "error"
                          /\ UNCHANGED <<pc, investigation_complete>>
                     ELSE IF PyEq(kind.val, PyStr("complete"))
                     THEN /\ investigation_complete' = TRUE
                          /\ pc' = "synthesize"
                          /\ UNCHANGED outcome
                     ELSE /\ pc' = "execute"
                          /\ UNCHANGED <<outcome, investigation_complete>>
    /\ UNCHANGED <<maxIterations, plan, reasoning_trace, tools_used, findings, returned>>

\* Execute with the tool logged before the provider is called, so that a
\* provider's transport failure leaves its kind in tools_used.
ExecuteLogsBeforeProvider ==
    /\ pc = "execute" /\ outcome = "running"
    /\ \E resp \in Responses(AnalysisTexts) :
         IF ExecuteCalls(next_action) /\ ~resp.ok
         THEN /\ TransportFailure("analyze", resp)
              /\ tools_used' = Append(tools_used, ActionType(next_action))
              /\ UNCHANGED <<pc, reasoning_trace, findings>>
         ELSE LET result == ExecuteAction(next_action, resp.text)
                  key == FindingKey(iteration)
              IN  /\ tools_used' = Append(tools_used, ActionType(next_action))
                  /\ findings' = [k \in DOMAIN findings \cup {key} |->
                                    IF k = key THEN result ELSE findings[k]]
                  /\ reasoning_trace' =
                        Append(reasoning_trace,
                               InvestigationEntry(iteration, next_action, result))
                  /\ calls' = IF ExecuteCalls(next_action)
                              THEN Append(calls, Call("analyze", resp)) ELSE calls
                  /\ pc' = "evaluate"
                  /\ UNCHANGED outcome
    /\ UNCHANGED <<maxIterations, plan, iteration, investigation_complete,
                   next_action, returned>>

\* result = self._execute_action(next_action); store the finding and the
\* trace entry.
Execute ==
    /\ pc = "execute" /\ outcome = "running"
    /\ \E resp \in Responses(AnalysisTexts) :
         IF ExecuteCalls(next_action) /\ ~resp.ok
         THEN /\ TransportFailure("analyze", resp)
              /\ UNCHANGED <<pc, reasoning_trace, tools_used, findings>>
         ELSE LET result == ExecuteAction(next_action, resp.text)
                  key == FindingKey(iteration)
              IN  /\ tools_used' = Append(tools_used, ActionType(next_action))
                  /\ findings' = [k \in DOMAIN findings \cup {key} |->
                                    IF k = key THEN result ELSE findings[k]]
                  /\ reasoning_trace' =
                        Append(reasoning_trace,
                               InvestigationEntry(iteration, next_action, result))
                  /\ calls' = IF ExecuteCalls(next_action)
                              THEN Append(calls, Call("analyze", resp)) ELSE calls
                  /\ pc' = "evaluate"
                  /\ UNCHANGED outcome
    /\ UNCHANGED <<maxIterations, plan, iteration, investigation_complete,
                   next_action, returned>>

\* if self._should_continue_investigation(result, iteration): continue
\* else: investigation_complete = True
Evaluate ==
    /\ pc = "evaluate" /\ outcome = "running"
    /\ \E resp \in Responses(EvalTexts) :
         LET c == ShouldContinueInvestigation(iteration, resp)
         IN  IF c.raised
             THEN /\ TransportFailure("evaluate", resp)
                  /\ UNCHANGED <<pc, investigation_complete>>
             ELSE /\ investigation_complete' =
                        IF Truthy(c.value) THEN investigation_complete ELSE TRUE
                  /\ calls' = IF c.called
                              THEN Append(calls, Call("evaluate", resp)) ELSE calls
                  /\ pc' = "loop"
                  /\ UNCHANGED outcome
    /\ UNCHANGED <<maxIterations, plan, iteration, next_action, reasoning_trace,
                   tools_used, findings, returned>>

\* Synthesize logging its output as one more trace entry.
SynthesizeAppends ==
    /\ pc = "synthesize" /\ outcome = "running"
    /\ \E resp \in Responses(ReportTexts) :
         IF ~resp.ok
         THEN /\ TransportFailure("synthesize", resp)
              /\ UNCHANGED <<pc, returned, reasoning_trace>>
         ELSE /\ reasoning_trace' =
                    Append(reasoning_trace, [phase |-> "synthesis", content |-> resp.text])
              /\ returned' = [report |-> resp.text,
                              reasoning_trace |-> reasoning_trace',
                              tools_used |-> tools_used,
                              findings |-> findings]
              /\ calls' = Append(calls, Call("synthesize", resp))
              /\ pc' = "done"
              /\ outcome' = "returned"
    /\ UNCHANGED <<maxIterations, plan, iteration, investigation_complete,
                   next_action, tools_used, findings>>

\* Step 3: final_report = self._synthesize_report(); return {...}
Synthesize ==
    /\ pc = "synthesize" /\ outcome = "running"
    /\ \E resp \in Responses(ReportTexts) :
         IF ~resp.ok
         THEN /\ TransportFailure("synthesize", resp)
              /\ UNCHANGED <<pc, returned>>
         ELSE /\ returned' = [report |-> resp.text,
                              reasoning_trace |-> reasoning_trace,
                              tools_used |-> tools_used,
                              findings |-> findings]
              /\ calls' = Append(calls, Call("synthesize", resp))
              /\ pc' = "done"
              /\ outcome' = "returned"
    /\ UNCHANGED <<maxIterations, plan, iteration, investigation_complete,
                   next_action, reasoning_trace, tools_used, findings>>

\* One run of one agent, called once by nobody in particular.
Next ==
    \/ Planning /\ UNCHANGED callerVars
    \/ LoopTest /\ UNCHANGED callerVars
    \/ Decide /\ UNCHANGED callerVars
    \/ Execute /\ UNCHANGED callerVars
    \/ Evaluate /\ UNCHANGED callerVars
    \/ Synthesize /\ UNCHANGED callerVars

Spec == Init /\ [][Next]_vars

\* run() is one sequential thread: a step that can be taken is taken.
FairSpec == Spec /\ WF_vars(Next)

---------------------------------------------------------------------------
(* Vocabulary of the properties.                                           *)

\* The phase of the run, after the comments that head the three steps of
\* run(): "Planning phase", "Investigation phase (iterative)", "Synthesis phase".
Phase ==
    CASE pc = "plan" -> "Planning"
      [] pc \in {"loop", "decide", "execute", "evaluate"} -> "Investigating"
      [] pc = "synthesize" -> "Synthesizing"
      [] pc = "done" -> "Done"
      [] OTHER -> "Other"

\* The order of the positions of run() in its text.
PcRank(p) ==
    CASE p = "plan" -> 0
      [] p = "loop" -> 1
      [] p = "decide" -> 2
      [] p = "execute" -> 3
      [] p = "evaluate" -> 4
      [] p = "synthesize" -> 5
      [] p = "done" -> 6
      [] OTHER -> 7

ReachedSynthesis == pc \in {"synthesize", "done"}

InvestigationEntries ==
    {i \in 1..Len(reasoning_trace) : reasoning_trace[i].phase = "investigation"}

\* The last action the selector decided was 'complete'.
EndedByComplete ==
    /\ HasKey(next_action, "action")
    /\ PyEq(next_action.v.action, PyStr("complete"))

CallsAt(site) == {i \in 1..Len(calls) : calls[i].site = site}

FailedCalls == {i \in 1..Len(calls) : ~calls[i].ok}

\* The text decodes to an object with the fields of the selector's schema.
InterpretableAsAction(text) ==
    LET d == JsonLoads(text)
    IN  /\ d.ok
        /\ IsDict(d.val)
        /\ {"action", "target", "method", "reasoning"} \subseteq DOMAIN d.val.v

---------------------------------------------------------------------------
(* C1, as stated, already for the ceilings maxIterations >= 1: when a run  *)
(* has reached synthesis, the iteration counter is between 1 and           *)
(* maxIterations and equals the number of investigation entries of the     *)
(* trace.                                                                  *)
C1_CounterEqualsEntries ==
    (maxIterations >= 1 /\ ReachedSynthesis) =>
        /\ 1 <= iteration
        /\ iteration <= maxIterations
        /\ Cardinality(InvestigationEntries) = iteration

(* C1, amended: when a run has reached synthesis, the iteration counter is *)
(* at most maxIterations and at least 1 once maxIterations >= 1, and the   *)
(* trace holds one investigation entry per counted iteration, less the     *)
(* last one when the selector ended the loop with 'complete'.              *)
C1_CounterBoundsEntries ==
    ReachedSynthesis =>
        /\ iteration <= maxIterations
        /\ (maxIterations >= 1 => iteration >= 1)
        /\ Cardinality(InvestigationEntries) =
              IF EndedByComplete THEN iteration - 1 ELSE iteration

\* A run that ended by 'complete' in its second iteration, with one entry.
C1_Witness ==
    /\ pc = "done"
    /\ EndedByComplete
    /\ iteration = 2
    /\ Cardinality(InvestigationEntries) = 1

(* C2: a run whose external calls all succeed eventually returns from      *)
(* synthesis (Done).                                                       *)
C2_ReachesDone == <>(pc = "done" \/ FailedCalls # {})

(* C3: the phase is one of Planning, Investigating, Synthesizing, Done;    *)
(* it changes only along Planning -> Investigating -> Synthesizing ->      *)
(* Done, and the only step back to an earlier position of run() is the     *)
(* loop's, from the continuation test to the loop head.                    *)
C3_PhasesLinear ==
    /\ [](Phase \in {"Planning", "Investigating", "Synthesizing", "Done"})
    /\ [][Phase' # Phase =>
            <<Phase, Phase'>> \in {<<"Planning", "Investigating">>,
                                   <<"Investigating", "Synthesizing">>,
                                   <<"Synthesizing", "Done">>}]_vars
    /\ [][PcRank(pc') < PcRank(pc) => (pc = "evaluate" /\ pc' = "loop")]_vars

\* A run that went round the loop and through every phase to Done.
C3_Witness ==
    /\ pc = "done"
    /\ iteration >= 2
    /\ ~EndedByComplete

(* C4: once planning has returned, the first trace entry is the planning   *)
(* entry and all later ones are investigation entries; the trace only      *)
(* grows at its end, and not at all once synthesis has started.            *)
C4_TraceOrder ==
    /\ [](pc # "plan" =>
            /\ Len(reasoning_trace) >= 1
            /\ reasoning_trace[1].phase = "planning"
            /\ \A i \in 2..Len(reasoning_trace) :
                  reasoning_trace[i].phase = "investigation")
    /\ [][/\ Len(reasoning_trace') >= Len(reasoning_trace)
          /\ SubSeq(reasoning_trace', 1, Len(reasoning_trace)) = reasoning_trace]_vars
    /\ [][ReachedSynthesis => reasoning_trace' = reasoning_trace]_vars

\* A returned run whose trace holds the plan and two investigations.
C4_Witness ==
    /\ pc = "done"
    /\ Len(reasoning_trace) = 3
    /\ returned.reasoning_trace = reasoning_trace

(* C5: right after a selector response that does not decode to the         *)
(* schema {action, target, method, reasoning}, the decided action is       *)
(* 'complete' and the run has left the loop for synthesis.                 *)
C5_MalformedActionCompletes ==
    (/\ Len(calls) > 0
     /\ calls[Len(calls)].site = "select"
     /\ calls[Len(calls)].ok
     /\ ~InterpretableAsAction(calls[Len(calls)].text))
    => (/\ EndedByComplete
        /\ outcome = "running"
        /\ pc = "synthesize")

(* C6: at the continuation test of an iteration >= maxIterations - 1,      *)
(* _should_continue_investigation returns False for every answer the       *)
(* service could give (a transport failure included) without asking it,    *)
(* and the step of run() ends the investigation.                           *)
C6_CeilingIgnoresService ==
    /\ []((pc = "evaluate" /\ outcome = "running" /\ iteration >= maxIterations - 1) =>
            \A resp \in Responses(EvalTexts) :
                LET c == ShouldContinueInvestigation(iteration, resp)
                IN  ~c.called /\ ~c.raised /\ PyEq(c.value, PyBool(FALSE)))
    /\ [][(pc = "evaluate" /\ iteration >= maxIterations - 1) =>
            /\ investigation_complete'
            /\ calls' = calls
            /\ outcome' = "running"
            /\ pc' = "loop"]_vars

\* The continuation test of iteration maxIterations - 1 >= 2 has ended the
\* investigation, and the last external call was not the evaluator's.
C6_Witness ==
    /\ pc = "loop"
    /\ investigation_complete
    /\ iteration = maxIterations - 1
    /\ iteration >= 2
    /\ calls[Len(calls)].site # "evaluate"
    /\ Cardinality(InvestigationEntries) = iteration

(* C7: no response text, however malformed, makes a run raise: a run never *)
(* ends by an exception other than a transport failure.                    *)
C7_MalformedNeverRaises == outcome # "error"

(* C8: a run that has ended either returned a result with the four fields  *)
(* report, reasoning_trace, tools_used, findings after calls that all      *)
(* succeeded, or raised one transport failure and returned nothing.        *)
C8_TwoOutcomes ==
    outcome # "running" =>
        \/ /\ outcome = "returned"
           /\ DOMAIN returned = {"report", "reasoning_trace", "tools_used", "findings"}
           /\ FailedCalls = {}
        \/ /\ outcome = "transport_failure"
           /\ returned = Unbound
           /\ Cardinality(FailedCalls) = 1

(* C9: a failed external call is the last call of its run: it is not       *)
(* issued again, no later stage calls out, nothing is returned, and the    *)
(* run has ended by that transport failure, after which it takes no step.  *)
C9_TransportFailureAborts ==
    /\ [](\A i \in FailedCalls :
            /\ i = Len(calls)
            /\ outcome = "transport_failure"
            /\ returned = Unbound)
    /\ [](outcome = "transport_failure" => FailedCalls # {})
    /\ [][outcome # "transport_failure"]_vars

\* A transport failure in the middle of a run, after four successful calls.
C9_Witness ==
    /\ outcome = "transport_failure"
    /\ Len(calls) = 5
    /\ FailedCalls = {5}
    /\ pc \in {"decide", "execute", "evaluate"}

(* C10, as stated: with maxIterations = 1 no action is executed into a     *)
(* finding: a returned run has empty findings and no investigation entry.  *)
C10_NoIterationAtOne ==
    (maxIterations = 1 /\ pc = "done") =>
        /\ DOMAIN returned.findings = {}
        /\ Cardinality(InvestigationEntries) = 0

(* C10, amended: with maxIterations = 1 exactly one iteration is started:  *)
(* the selector is called once; the findings are empty exactly when its    *)
(* action was 'complete', otherwise the action is executed and recorded as *)
(* the only finding, iteration_1; the continuation evaluator is never      *)
(* called; the result carries these findings.                              *)
C10_OneIterationAtOne ==
    maxIterations = 1 =>
        /\ iteration <= 1
        /\ Cardinality(CallsAt("select")) <= 1
        /\ CallsAt("evaluate") = {}
        /\ DOMAIN findings \subseteq {FindingKey(1)}
        /\ ReachedSynthesis =>
              /\ iteration = 1
              /\ Cardinality(CallsAt("select")) = 1
              /\ (DOMAIN findings = {}) <=> EndedByComplete
              /\ Cardinality(InvestigationEntries) = Cardinality(DOMAIN findings)
        /\ pc = "done" => returned.findings = findings

\* A run with maxIterations = 1 that returned one finding.
C10_Witness ==
    /\ maxIterations = 1
    /\ pc = "done"
    /\ DOMAIN returned.findings = {FindingKey(1)}
    /\ Len(tools_used) = 1

(* C11, as stated: when the selector answers 'complete' on iteration 1,    *)
(* the trace has exactly one investigation entry and tools_used is empty.  *)
C11_CompleteLeavesOneEntry ==
    (iteration = 1 /\ EndedByComplete /\ ReachedSynthesis) =>
        /\ Cardinality(InvestigationEntries) = 1
        /\ tools_used = <<>>

(* C11, amended: when the selector answers 'complete' on iteration 1, the  *)
(* trace holds the planning entry alone, tools_used and findings are       *)
(* empty, and the run has proceeded to synthesis.                          *)
C11_CompleteLeavesNoEntry ==
    (iteration = 1 /\ EndedByComplete) =>
        /\ ReachedSynthesis
        /\ Len(reasoning_trace) = 1
        /\ InvestigationEntries = {}
        /\ tools_used = <<>>
        /\ DOMAIN findings = {}

\* A run that returned after 'complete' on iteration 1, asked for by the
\* service itself and not by the decode fallback.
C11_Witness ==
    /\ pc = "done"
    /\ iteration = 1
    /\ EndedByComplete
    /\ calls[2].text = ActionText("complete")
    /\ returned.tools_used = <<>>

\* The kinds _execute_action has a provider for.
ProviderKinds == {"analyze", "calculate", "compare", "investigate_anomaly"}

HasProvider(action_type) ==
    \E k \in ProviderKinds : PyEq(action_type, PyStr(k))

UnknownActionResult == PyDict([status |-> PyStr("unknown_action")])

(* C12: executing an action whose kind has no provider does not raise and  *)
(* issues no external call: the result {status: 'unknown_action'} is       *)
(* recorded as the iteration's finding and trace entry, the attempted kind *)
(* is appended to tools_used, and the run goes on to the continuation      *)
(* test.                                                                   *)
C12_UnknownActionIsTagged ==
    [][(pc = "execute" /\ ~HasProvider(ActionType(next_action))) =>
          /\ outcome' = "running"
          /\ pc' = "evaluate"
          /\ calls' = calls
          /\ tools_used' = Append(tools_used, ActionType(next_action))
          /\ DOMAIN findings' = DOMAIN findings \cup {"iteration_" \o ToString(iteration)}
          /\ findings'["iteration_" \o ToString(iteration)] = UnknownActionResult
          /\ reasoning_trace' =
                Append(reasoning_trace,
                       [phase |-> "investigation", iteration |-> iteration,
                        action |-> next_action, result |-> UnknownActionResult])]_vars

\* A returned run whose first action had the unregistered kind 'dance' and
\* which went on to a second iteration.
C12_Witness ==
    /\ pc = "done"
    /\ Len(returned.tools_used) = 2
    /\ returned.tools_used[1] = PyStr("dance")
    /\ returned.findings["iteration_1"] = UnknownActionResult

\* Planning has returned and its response text was not JSON.
PlanUndecodable ==
    /\ pc # "plan"
    /\ ~JsonLoads(calls[1].text).ok

(* C13: when the planning response does not decode, the plan is the dict   *)
(* holding exactly that text under raw_plan, and it is the content of the  *)
(* planning entry; no later stage stops on it: while the run has not       *)
(* ended its next stage can run, and the only exception that is not a      *)
(* transport failure is the one a selector response raises.                *)
C13_RawPlanFallback ==
    PlanUndecodable =>
        /\ plan = PyDict([raw_plan |-> PyStr(calls[1].text)])
        /\ reasoning_trace[1] = [phase |-> "planning", content |-> plan]
        /\ outcome = "running" => ENABLED Next
        /\ outcome = "error" =>
              /\ calls[Len(calls)].site = "select"
              /\ ~InterpretableAsAction(calls[Len(calls)].text)

\* A run planned from prose that executed two actions and returned.
C13_Witness ==
    /\ pc = "done"
    /\ plan = PyDict([raw_plan |-> PyStr(ProseText)])
    /\ Len(returned.tools_used) = 2
    /\ returned.reasoning_trace[1].content = plan

(* C14: once planning has returned, the plan is not None, whatever text    *)
(* the service answered.                                                   *)
C14_PlanNeverNull ==
    pc # "plan" => ~PyEq(plan, PyNone)

\* The continuation test of the current iteration asked the service and
\* got an object whose continue field tests true (as `if` in run() tests
\* the returned value); below the ceiling only, where the service is asked.
EvaluatorReturnedTrue ==
    /\ iteration < maxIterations - 1
    /\ LET c == calls[Len(calls)]
           d == JsonLoads(c.text)
       IN  /\ c.site = "evaluate"
           /\ c.ok
           /\ d.ok
           /\ HasKey(d.val, "continue")
           /\ Truthy(d.val.v.continue)

IterationKey(k) == "iteration_" \o ToString(k)

(* C17: the investigation entries of the trace carry the iteration indices *)
(* 1, 2, 3, ... in order, the counter moves by steps of exactly 1, the     *)
(* keys of the findings are iteration_k for exactly these indices k, and   *)
(* the finding under iteration_k is the result of the trace entry of       *)
(* iteration k.                                                            *)
C17_FindingsMatchTrace ==
    /\ [](\A i \in InvestigationEntries : reasoning_trace[i].iteration = i - 1)
    /\ [](DOMAIN findings =
            {IterationKey(reasoning_trace[i].iteration) : i \in InvestigationEntries})
    /\ [](\A i \in InvestigationEntries :
            findings[IterationKey(reasoning_trace[i].iteration)] = reasoning_trace[i].result)
    /\ [](Cardinality(InvestigationEntries) <= iteration)
    /\ [][iteration' = iteration \/ iteration' = iteration + 1]_vars
    /\ [][Len(reasoning_trace') > Len(reasoning_trace) /\ pc # "plan" =>
            reasoning_trace'[Len(reasoning_trace')].iteration = iteration]_vars

\* Three investigation steps recorded under iteration_1 .. iteration_3.
C17_Witness ==
    /\ Cardinality(InvestigationEntries) = 3
    /\ DOMAIN findings = {"iteration_1", "iteration_2", "iteration_3"}
    /\ findings["iteration_2"] = reasoning_trace[3].result

(* C18: a step of the run keeps every recorded finding under its key with  *)
(* its value, and adds at most one key.                                    *)
C18_FindingsOnlyGrow ==
    [][/\ \A k \in DOMAIN findings :
             k \in DOMAIN findings' /\ findings'[k] = findings[k]
       /\ Cardinality(DOMAIN findings' \ DOMAIN findings) <= 1]_vars

\* Findings of two iterations that differ (the second did not overwrite
\* the first).
C18_Witness ==
    /\ DOMAIN findings = {"iteration_1", "iteration_2"}
    /\ findings["iteration_1"] # findings["iteration_2"]
    /\ pc = "done"

(* C19: the step in which the selector yields 'complete' does not go to    *)
(* _execute_action and leaves findings, tools_used and the trace as they   *)
(* are; 'complete' is never an element of tools_used.                      *)
C19_CompleteNotDispatched ==
    /\ [][(pc = "decide" /\ EndedByComplete') =>
            /\ pc' # "execute"
            /\ findings' = findings
            /\ tools_used' = tools_used
            /\ reasoning_trace' = reasoning_trace]_vars
    /\ [](EndedByComplete => pc \notin {"execute", "evaluate", "loop"})
    /\ [](\A i \in 1..Len(tools_used) : ~PyEq(tools_used[i], PyStr("complete")))

\* A run that executed two actions, was then told 'complete', and returned.
C19_Witness ==
    /\ pc = "done"
    /\ EndedByComplete
    /\ iteration = 3
    /\ Len(returned.tools_used) = 2

\* The text does not decode, or decodes to a value without a continue field.
NoContinueField(text) ==
    LET d == JsonLoads(text)
    IN  ~d.ok \/ ~HasKey(d.val, "continue")

(* C20: below the ceiling, for an evaluator response that does not decode  *)
(* or decodes to a value without a continue field,                         *)
(* _should_continue_investigation returns False; the step of run() ends    *)
(* the investigation and the loop test that follows goes to synthesis.     *)
C20_UndecodableEndsLoop ==
    /\ [](\A text \in EvalTexts :
            (pc = "evaluate" /\ iteration < maxIterations - 1 /\ NoContinueField(text)) =>
                LET c == ShouldContinueInvestigation(iteration, [ok |-> TRUE, text |-> text])
                IN  c.called /\ ~c.raised /\ PyEq(c.value, PyBool(FALSE)))
    /\ [][(/\ pc = "evaluate"
           /\ Len(calls') > Len(calls)
           /\ calls'[Len(calls')].ok
           /\ NoContinueField(calls'[Len(calls')].text)) =>
            /\ investigation_complete'
            /\ outcome' = "running"
            /\ pc' = "loop"]_vars
    /\ [][(/\ pc = "loop"
           /\ iteration >= 1
           /\ iteration < maxIterations - 1
           /\ NoContinueField(calls[Len(calls)].text)) =>
            pc' = "synthesize"]_vars

\* Below the ceiling the evaluator answered a JSON list, and the run went
\* to synthesis.
C20_Witness ==
    /\ pc = "synthesize"
    /\ iteration >= 1
    /\ iteration < maxIterations - 1
    /\ calls[Len(calls)].site = "evaluate"
    /\ calls[Len(calls)].text = ListText

\* The kind of the action of trace entry i: its 'action' field.
ActionKindOf(i) == reasoning_trace[i].action.v.action

(* C24: tools_used lists the 'action' fields of the investigation entries  *)
(* of the trace, in trace order; tools_used, findings and the              *)
(* investigation entries have the same length; the returned tools_used is  *)
(* that list; a step in which a provider's external call fails leaves      *)
(* tools_used as it was.                                                   *)
C24_ToolsMatchTrace ==
    /\ [](Len(tools_used) = Cardinality(InvestigationEntries))
    /\ [](Cardinality(DOMAIN findings) = Len(tools_used))
    /\ [](\A i \in 1..Len(tools_used) :
            /\ (i + 1) \in InvestigationEntries
            /\ HasKey(reasoning_trace[i + 1].action, "action")
            /\ tools_used[i] = ActionKindOf(i + 1))
    /\ [](pc = "done" => returned.tools_used = tools_used)
    /\ [][(pc = "execute" /\ outcome' = "transport_failure") =>
            tools_used' = tools_used]_vars

\* A completed run that executed a calculation and then an analysis.
C24_Witness ==
    /\ pc = "done"
    /\ returned.tools_used = <<PyStr("calculate"), PyStr("analyze")>>
    /\ Cardinality(DOMAIN returned.findings) = 2

\* max(a, b)
Max(a, b) == IF a >= b THEN a ELSE b

(* C25: for maxIterations >= 1 the findings of a run never number more     *)
(* than max(1, maxIterations - 1); for maxIterations >= 2 the loop test    *)
(* never sees iteration = maxIterations: whenever it ends the loop, it is  *)
(* because investigation_complete is set.                                  *)
C25_ActionsBelowCeiling ==
    /\ maxIterations >= 1 =>
          /\ Cardinality(DOMAIN findings) <= Max(1, maxIterations - 1)
          /\ Len(tools_used) <= Max(1, maxIterations - 1)
    /\ maxIterations >= 2 =>
          /\ iteration < maxIterations
          /\ (pc = "synthesize" => investigation_complete)

\* The ceiling 4 was exhausted: three actions executed, the investigation
\* ended by the evaluator's ceiling with the counter still below 4.
C25_Witness ==
    /\ maxIterations = 4
    /\ pc = "synthesize"
    /\ Cardinality(DOMAIN findings) = 3
    /\ iteration = 3
    /\ ~EndedByComplete

(* C26: the continuation test issues exactly one external call when        *)
(* iteration < maxIterations - 1 and none when iteration >= maxIterations  *)
(* - 1, whatever the service would answer; a run whose last step was a     *)
(* transport failure of the evaluator was below the ceiling.               *)
C26_EvaluatorCallCount ==
    /\ [](pc = "evaluate" =>
            \A resp \in Responses(EvalTexts) :
                ShouldContinueInvestigation(iteration, resp).called
                    <=> (iteration < maxIterations - 1))
    /\ [][pc = "evaluate" =>
            /\ Len(calls') = Len(calls) + (IF iteration < maxIterations - 1 THEN 1 ELSE 0)
            /\ \A i \in 1..Len(calls) : calls'[i] = calls[i]
            /\ Len(calls') > Len(calls) => calls'[Len(calls')].site = "evaluate"]_vars
    /\ []((/\ outcome = "transport_failure"
           /\ calls[Len(calls)].site = "evaluate") => iteration < maxIterations - 1)
    /\ [][(pc = "evaluate" /\ iteration >= maxIterations - 1) =>
            outcome' # "transport_failure"]_vars

\* At ceiling 3 the evaluator was asked once, after iteration 1, and was
\* not asked after iteration 2.
C26_Witness ==
    /\ maxIterations = 3
    /\ pc = "loop"
    /\ iteration = 2
    /\ Cardinality(CallsAt("evaluate")) = 1
    /\ Cardinality(InvestigationEntries) = 2

(* C27: the loop test starts a further iteration only after an evaluator   *)
(* response that decodes to an object whose continue field is the boolean  *)
(* true.                                                                   *)
C27_OnlyBooleanTrueContinues ==
    [][(pc = "loop" /\ iteration >= 1 /\ pc' = "decide") =>
          LET c == calls[Len(calls)]
              d == JsonLoads(c.text)
          IN  /\ c.site = "evaluate"
              /\ c.ok
              /\ d.ok
              /\ HasKey(d.val, "continue")
              /\ PyEq(d.val.v.continue, PyBool(TRUE))]_vars

---------------------------------------------------------------------------
(* The callers of AgenticAI.run. Each builds its agent itself, so the run  *)
(* variables hold no agent before the caller has built one.                *)

\* Largest iteration ceiling configured where run() is called by a caller.
CallerIterBound == 2

\* No AgenticAI has been built yet.
NoAgent ==
    /\ pc = "none"
    /\ outcome = "running"
    /\ plan = Unbound
    /\ iteration = 0
    /\ investigation_complete = FALSE
    /\ next_action = Unbound
    /\ reasoning_trace = <<>>
    /\ tools_used = <<>>
    /\ findings = NoFindings
    /\ returned = Unbound
    /\ calls = <<>>

\* agent = AgenticAI(query, dataset_context), run() about to be called: new
\* lists and a new dict, and the frame of a run() not yet started.
AgenticAI ==
    /\ pc' = "plan"
    /\ outcome' = "running"
    /\ plan' = Unbound
    /\ iteration' = 0
    /\ investigation_complete' = FALSE
    /\ next_action' = Unbound
    /\ reasoning_trace' = <<>>
    /\ tools_used' = <<>>
    /\ findings' = NoFindings
    /\ returned' = Unbound
    /\ calls' = <<>>

\* run() has left by an exception.
RunRaised == outcome \in {"transport_failure", "error"}

---------------------------------------------------------------------------
(* process_agent_message (agent/tasks.py), a Celery task with              *)
(* max_retries = 2. Celery's self.retry(exc = e) schedules the task again  *)
(* with request.retries + 1, and raises e instead once request.retries has *)
(* reached max_retries.                                                    *)

\* @shared_task(bind=True, max_retries=2)
AgentMaxRetries == 2

\* An attempt starts: agent = AgenticAI(user_query, dataset_context).
ProcessAgentMessage ==
    /\ task_state \in {"queued", "retry"}
    /\ task_state' = "running"
    /\ AgenticAI
    /\ UNCHANGED <<maxIterations, retries, task_result>>

\* result = agent.run() has returned: return {'success': True, ...}.
TaskReturn ==
    /\ task_state = "running"
    /\ pc = "done"
    /\ task_result' = [success |-> TRUE,
                       report |-> returned.report,
                       reasoning_trace |-> returned.reasoning_trace,
                       tools_used |-> returned.tools_used,
                       findings |-> returned.findings]
    /\ task_state' = "succeeded"
    /\ UNCHANGED <<runVars, retries>>

\* The handler that retries once more than max_retries allows.
TaskExceptOneMore ==
    /\ task_state = "running"
    /\ RunRaised
    /\ IF retries <= AgentMaxRetries
       THEN /\ retries' = retries + 1
            /\ task_state' = "retry"
       ELSE /\ task_state' = "failed"
            /\ UNCHANGED retries
    /\ UNCHANGED <<runVars, task_result>>

\* except Exception as e: raise self.retry(exc=e, countdown=30)
TaskExcept ==
    /\ task_state = "running"
    /\ RunRaised
    /\ IF retries < AgentMaxRetries
       THEN /\ retries' = retries + 1
            /\ task_state' = "retry"
       ELSE /\ task_state' = "failed"
            /\ UNCHANGED retries
    /\ UNCHANGED <<runVars, task_result>>

TaskInit ==
    /\ maxIterations \in 0..CallerIterBound
    /\ NoAgent
    /\ task_state = "queued" /\ retries = 0 /\ task_result = Unbound
    /\ NoRerun /\ NoSecondAgent /\ NoChat /\ NoDataset

notTaskVars == <<rerunVars, concVars, chatVars, datasetVars>>

TaskNext ==
    \/ ProcessAgentMessage /\ UNCHANGED notTaskVars
    \/ Planning /\ UNCHANGED callerVars
    \/ LoopTest /\ UNCHANGED callerVars
    \/ Decide /\ UNCHANGED callerVars
    \/ Execute /\ UNCHANGED callerVars
    \/ Evaluate /\ UNCHANGED callerVars
    \/ Synthesize /\ UNCHANGED callerVars
    \/ TaskReturn /\ UNCHANGED notTaskVars
    \/ TaskExcept /\ UNCHANGED notTaskVars

TaskSpec == TaskInit /\ [][TaskNext]_vars

\* The planning entries of a trace.
PlanningEntries(trace) == {i \in 1..Len(trace) : trace[i].phase = "planning"}

(* C23: process_agent_message retries at most max_retries = 2 times, that  *)
(* is at most 3 attempts; once the third attempt has failed the task       *)
(* fails; every attempt starts with an agent whose trace, findings and     *)
(* tools_used are empty; a task that succeeded returned success = true     *)
(* with the report, trace, tools and findings of its last attempt: one     *)
(* planning entry, every call of the attempt answered.                     *)
C23_BoundedFreshAttempts ==
    /\ [](retries <= AgentMaxRetries)
    /\ [][(task_state = "running" /\ RunRaised /\ retries = AgentMaxRetries) =>
            task_state' = "failed"]_vars
    /\ [][(task_state = "running" /\ RunRaised /\ retries < AgentMaxRetries) =>
            (task_state' = "retry" /\ retries' = retries + 1)]_vars
    /\ [][(task_state # "running" /\ task_state' = "running") =>
            /\ reasoning_trace' = <<>>
            /\ tools_used' = <<>>
            /\ findings' = NoFindings
            /\ calls' = <<>>
            /\ pc' = "plan"]_vars
    /\ [](task_state = "succeeded" =>
            /\ task_result.success
            /\ task_result.report = returned.report
            /\ task_result.reasoning_trace = reasoning_trace
            /\ task_result.tools_used = tools_used
            /\ task_result.findings = findings
            /\ Cardinality(PlanningEntries(task_result.reasoning_trace)) = 1
            /\ Len(task_result.tools_used) = Len(task_result.reasoning_trace) - 1
            /\ FailedCalls = {})
    /\ [](task_state \in {"queued", "retry", "failed"} => task_result = Unbound)

\* The third attempt succeeded and returned a result with one executed action.
C23_Witness ==
    /\ task_state = "succeeded"
    /\ retries = AgentMaxRetries
    /\ Len(task_result.tools_used) = 1

---------------------------------------------------------------------------
(* run() called again on the same AgenticAI. run() assigns its locals      *)
(* anew and appends to the self.reasoning_trace, self.tools_used and       *)
(* self.findings that __init__ created; the dict it returns refers to      *)
(* these same three objects.                                               *)

\* How many times run() is called on one object.
MaxRuns == 2

\* The caller calls agent.run() once more after it has returned.
RunAgain ==
    /\ pc = "done"
    /\ runs < MaxRuns
    /\ runs' = runs + 1
    /\ first_result' = IF runs = 1 THEN returned ELSE first_result
    /\ pc' = "plan"
    /\ outcome' = "running"
    /\ plan' = Unbound
    /\ iteration' = 0
    /\ investigation_complete' = FALSE
    /\ next_action' = Unbound
    /\ returned' = Unbound
    /\ calls' = <<>>
    /\ UNCHANGED <<maxIterations, reasoning_trace, tools_used, findings>>

\* The result of the first call as its holder reads it now: its report is
\* a string of its own, its other three entries are the agent's objects.
HeldResult ==
    [report |-> first_result.report,
     reasoning_trace |-> reasoning_trace,
     tools_used |-> tools_used,
     findings |-> findings]

RerunInit ==
    /\ maxIterations \in 0..CallerIterBound
    /\ AgentBuilt
    /\ NoTask /\ NoRerun /\ NoSecondAgent /\ NoChat /\ NoDataset

notRerunVars == <<taskVars, concVars, chatVars, datasetVars>>

RerunNext ==
    \/ Planning /\ UNCHANGED callerVars
    \/ LoopTest /\ UNCHANGED callerVars
    \/ Decide /\ UNCHANGED callerVars
    \/ Execute /\ UNCHANGED callerVars
    \/ Evaluate /\ UNCHANGED callerVars
    \/ Synthesize /\ UNCHANGED callerVars
    \/ RunAgain /\ UNCHANGED notRerunVars

RerunSpec == RerunInit /\ [][RerunNext]_vars

(* C22: once run() has returned and is called again on the same object,    *)
(* the result of the first call stays as it was returned, and the second   *)
(* call returns what a new agent returns: a trace of one planning entry,   *)
(* the first, followed by the investigation entries of this call, and      *)
(* tools_used and findings of as many elements as these investigation      *)
(* entries.                                                                *)
C22_RerunLikeFresh ==
    runs >= 2 =>
        /\ HeldResult = first_result
        /\ pc = "done" =>
              /\ Cardinality(PlanningEntries(returned.reasoning_trace)) = 1
              /\ returned.reasoning_trace[1].phase = "planning"
              /\ Len(returned.tools_used) = Len(returned.reasoning_trace) - 1
              /\ Cardinality(DOMAIN returned.findings) = Len(returned.tools_used)

---------------------------------------------------------------------------
(* Two AgenticAI objects whose runs interleave: ChatConsumer runs          *)
(* agent.run in a worker thread (database_sync_to_async), one per          *)
(* connection. The run variables hold the run that is executing; the       *)
(* other run's locals are parked, and the contents of objects are written  *)
(* back to the heap when the executing run is switched out. An attribute   *)
(* holds a reference, so two attributes that refer to one object see each  *)
(* other's writes.                                                         *)

Agents == {1, 2}

Fields == {"reasoning_trace", "tools_used", "findings"}

\* __init__ with findings bound to one dict of the class, not of the object.
NewAgentClassFindings(a) ==
    [reasoning_trace |-> <<a, "reasoning_trace">>,
     tools_used |-> <<a, "tools_used">>,
     findings |-> <<0, "findings">>]

\* __init__: self.reasoning_trace = [], self.tools_used = [],
\* self.findings = {} each create an object of agent a's own.
NewAgent(a) ==
    [reasoning_trace |-> <<a, "reasoning_trace">>,
     tools_used |-> <<a, "tools_used">>,
     findings |-> <<a, "findings">>]

Objects == {attr[a][f] : a \in Agents, f \in Fields}

\* [] or {}
EmptyObject(id) == IF id[2] = "findings" THEN NoFindings ELSE <<>>

\* The locals of the executing run().
Locals ==
    [pc |-> pc, outcome |-> outcome, plan |-> plan, iteration |-> iteration,
     investigation_complete |-> investigation_complete,
     next_action |-> next_action, returned |-> returned, calls |-> calls]

\* The locals of a run() that has not started.
NotStarted ==
    [pc |-> "plan", outcome |-> "running", plan |-> Unbound, iteration |-> 0,
     investigation_complete |-> FALSE,
     next_action |-> Unbound, returned |-> Unbound, calls |-> <<>>]

\* The heap once the executing run's objects are written back.
WrittenBack ==
    [id \in DOMAIN heap |->
        IF id = attr[active].reasoning_trace THEN reasoning_trace
        ELSE IF id = attr[active].tools_used THEN tools_used
        ELSE IF id = attr[active].findings THEN findings
        ELSE heap[id]]

\* The scheduler lets the run of agent b go on.
Switch(b) ==
    /\ b # active
    /\ heap' = WrittenBack
    /\ parked' = [parked EXCEPT ![active] = Locals]
    /\ active' = b
    /\ pc' = parked[b].pc
    /\ outcome' = parked[b].outcome
    /\ plan' = parked[b].plan
    /\ iteration' = parked[b].iteration
    /\ investigation_complete' = parked[b].investigation_complete
    /\ next_action' = parked[b].next_action
    /\ returned' = parked[b].returned
    /\ calls' = parked[b].calls
    /\ reasoning_trace' = WrittenBack[attr[b].reasoning_trace]
    /\ tools_used' = WrittenBack[attr[b].tools_used]
    /\ findings' = WrittenBack[attr[b].findings]
    /\ UNCHANGED <<maxIterations, attr>>

\* Largest iteration ceiling configured for the two interleaved runs.
ConcIterBound == 1

ConcInit ==
    /\ maxIterations \in 0..ConcIterBound
    /\ AgentBuilt
    /\ active = 1
    /\ attr = [a \in Agents |-> NewAgent(a)]
    /\ heap = [id \in Objects |-> EmptyObject(id)]
    /\ parked = [a \in Agents |-> NotStarted]
    /\ NoTask /\ NoRerun /\ NoChat /\ NoDataset

notConcVars == <<taskVars, rerunVars, chatVars, datasetVars>>

ConcNext ==
    \/ Planning /\ UNCHANGED callerVars
    \/ LoopTest /\ UNCHANGED callerVars
    \/ Decide /\ UNCHANGED callerVars
    \/ Execute /\ UNCHANGED callerVars
    \/ Evaluate /\ UNCHANGED callerVars
    \/ Synthesize /\ UNCHANGED callerVars
    \/ \E b \in Agents : Switch(b) /\ UNCHANGED notConcVars

ConcSpec == ConcInit /\ [][ConcNext]_vars

\* The run of agent a: its locals and the contents of its three objects.
RunOf(a) ==
    IF a = active
    THEN [locals |-> Locals, reasoning_trace |-> reasoning_trace,
          tools_used |-> tools_used, findings |-> findings]
    ELSE [locals |-> parked[a],
          reasoning_trace |-> heap[attr[a].reasoning_trace],
          tools_used |-> heap[attr[a].tools_used],
          findings |-> heap[attr[a].findings]]

(* C21: a step leaves the run of every agent that is not executing as it   *)
(* was: its locals, trace, tools_used, findings and result; and two runs   *)
(* that stand at the same place after the same responses have the same     *)
(* trace, tools_used, findings and result, however their steps were        *)
(* interleaved.                                                            *)
C21_RunsIsolated ==
    /\ [][\A a \in Agents : a # active => RunOf(a)' = RunOf(a)]_vars
    /\ [](\A a, b \in Agents :
            (/\ RunOf(a).locals.calls = RunOf(b).locals.calls
             /\ RunOf(a).locals.pc = RunOf(b).locals.pc) => RunOf(a) = RunOf(b))

\* Agent 1 waits in the middle of its run with one finding, and agent 2
\* has run to its end meanwhile with another.
C21_Witness ==
    /\ active = 2
    /\ pc = "done"
    /\ parked[1].pc = "evaluate"
    /\ Cardinality(DOMAIN RunOf(1).findings) = 1
    /\ Cardinality(DOMAIN RunOf(2).findings) = 1
    /\ RunOf(1).findings # RunOf(2).findings

---------------------------------------------------------------------------
(* ChatConsumer (chat/consumers.py): one frame of type 'message' received  *)
(* on an open connection, handled by receive and handle_user_message. The  *)
(* consumer awaits each step, so the handler of a frame runs alone on its  *)
(* connection. A string that the handler inspects is a sequence of         *)
(* characters.                                                             *)

UpperCase ==
    <<"A", "B", "C", "D", "E", "F", "G", "H", "I", "J", "K", "L"
     , "M", "N", "O", "P", "Q", "R", "S", "T", "U", "V", "W", "X", "Y", "Z">>

LowerCase ==
    <<"a", "b", "c", "d", "e", "f", "g", "h", "i", "j", "k", "l"
     , "m", "n", "o", "p", "q", "r", "s", "t", "u", "v", "w", "x", "y", "z">>

\* str.lower(), character by character
LowerChar(c) ==
    IF \E i \in 1..Len(UpperCase) : UpperCase[i] = c
    THEN LowerCase[CHOOSE i \in 1..Len(UpperCase) : UpperCase[i] = c]
    ELSE c

Lower(s) == [i \in 1..Len(s) |-> LowerChar(s[i])]

\* str.strip(): leading and trailing blanks removed
Strip(s) ==
    LET inked == {i \in 1..Len(s) : s[i] # " "}
    IN  IF inked = {} THEN <<>>
        ELSE SubSeq(s, CHOOSE i \in inked : \A j \in inked : i <= j,
                       CHOOSE i \in inked : \A j \in inked : i >= j)

\* keyword in content
Contains(s, k) ==
    \E i \in 0..(Len(s) - Len(k)) : SubSeq(s, i + 1, i + Len(k)) = k

\* analysis_keywords
AnalysisKeywords ==
    {<<"a", "n", "a", "l", "y", "z", "e">>,
     <<"a", "n", "a", "l", "y", "s", "i", "s">>,
     <<"r", "e", "p", "o", "r", "t">>,
     <<"i", "n", "v", "e", "s", "t", "i", "g", "a", "t", "e">>,
     <<"f", "i", "n", "d">>,
     <<"s", "h", "o", "w">>,
     <<"c", "o", "m", "p", "a", "r", "e">>,
     <<"c", "o", "r", "r", "e", "l", "a", "t", "i", "o", "n">>,
     <<"t", "r", "e", "n", "d">>,
     <<"p", "a", "t", "t", "e", "r", "n">>,
     <<"i", "n", "s", "i", "g", "h", "t">>,
     <<"w", "h", "a", "t">>}

\* The heuristic of check_if_needs_analysis.
CheckIfNeedsAnalysis(content, dataset_id) ==
    IF Truthy(dataset_id)
    THEN TRUE
    ELSE \E k \in AnalysisKeywords : Contains(Lower(content), k)

\* The 'content' and 'dataset_id' a client sends.
Contents == {<<>>, <<" ", " ">>, <<"H", "i", " ">>,
             <<" ", "S", "h", "o", "w", "s">>}

DatasetIds == {PyNone, PyStr("d1")}

TitleTexts == {"Sales chat"}

SimpleTexts == {"Hello!"}

\* The rows an earlier exchange left in the session.
EarlierMessages ==
    <<[role |-> "user", message_type |-> "text"],
      [role |-> "agent", message_type |-> "report"]>>

TypingFrame(is_typing) == [type |-> "typing", is_typing |-> is_typing, user |-> "agent"]

ErrorFrame(message) == [type |-> "error", message |-> message]

ChatMessageFrame(role, message_type) ==
    [type |-> "chat_message", role |-> role, message_type |-> message_type]

\* receive with a frame of type 'message', and handle_user_message up to
\* the count of the session's messages.
Receive ==
    /\ chat_pc = "idle"
    /\ \E c \in Contents, d \in DatasetIds :
         LET content == Strip(c)
         IN  /\ data' = [content |-> c, dataset_id |-> d]
             /\ IF content = <<>>
                THEN /\ chat_pc' = "returned"
                     /\ UNCHANGED <<messages, frames>>
                ELSE /\ messages' = Append(messages,
                                           [role |-> "user", message_type |-> "text"])
                     /\ frames' = Append(frames, ChatMessageFrame("user", "text"))
                     /\ chat_pc' = IF Len(messages') = 1 THEN "title" ELSE "typing"
    /\ UNCHANGED runVars

\* generate_chat_title: SimpleResponseAgent.respond() is one external call;
\* its failure leaves handle_user_message and receive reports it.
GenerateChatTitle ==
    /\ chat_pc = "title"
    /\ \E resp \in Responses(TitleTexts) :
         IF ~resp.ok
         THEN /\ frames' = Append(frames, ErrorFrame("Error"))
              /\ chat_pc' = "returned"
         ELSE /\ chat_pc' = "typing"
              /\ UNCHANGED frames
    /\ UNCHANGED <<runVars, data, messages>>

\* send_typing_indicator(True), the choice of the responder, and
\* process_with_agent up to agent = AgenticAI(query, dataset_context).
ChooseResponder ==
    /\ chat_pc = "typing"
    /\ IF CheckIfNeedsAnalysis(Strip(data.content), data.dataset_id)
       THEN /\ frames' = frames \o <<TypingFrame(TRUE), [type |-> "agent_processing"]>>
            /\ AgenticAI
            /\ chat_pc' = "agent"
            /\ UNCHANGED maxIterations
       ELSE /\ frames' = Append(frames, TypingFrame(TRUE))
            /\ chat_pc' = "simple"
            /\ UNCHANGED runVars
    /\ UNCHANGED <<data, messages>>

\* agent.run() has returned: send_agent_response(report), then the typing
\* indicator off.
AgentReturned ==
    /\ chat_pc = "agent"
    /\ pc = "done"
    /\ messages' = Append(messages, [role |-> "agent", message_type |-> "report"])
    /\ frames' = frames \o <<ChatMessageFrame("agent", "report"), TypingFrame(FALSE)>>
    /\ chat_pc' = "returned"
    /\ UNCHANGED <<runVars, data>>

\* The handler of process_with_agent letting the exception go on after it
\* has reported it.
AgentRaisedReraises ==
    /\ chat_pc = "agent"
    /\ RunRaised
    /\ frames' = frames \o <<ErrorFrame("Analysis failed"), ErrorFrame("Error")>>
    /\ chat_pc' = "returned"
    /\ UNCHANGED <<runVars, data, messages>>

\* agent.run() has raised: except Exception as e: send_error(...), then
\* the typing indicator off.
AgentRaised ==
    /\ chat_pc = "agent"
    /\ RunRaised
    /\ frames' = frames \o <<ErrorFrame("Analysis failed"), TypingFrame(FALSE)>>
    /\ chat_pc' = "returned"
    /\ UNCHANGED <<runVars, data, messages>>

\* get_simple_response and send_agent_response(response), then the typing
\* indicator off; a failure of the external call leaves
\* handle_user_message and receive reports it.
SimpleRespond ==
    /\ chat_pc = "simple"
    /\ \E resp \in Responses(SimpleTexts) :
         IF ~resp.ok
         THEN /\ frames' = Append(frames, ErrorFrame("Error"))
              /\ UNCHANGED messages
         ELSE /\ messages' = Append(messages, [role |-> "agent", message_type |-> "text"])
              /\ frames' = frames \o <<ChatMessageFrame("agent", "text"), TypingFrame(FALSE)>>
    /\ chat_pc' = "returned"
    /\ UNCHANGED <<runVars, data>>

\* An accepted connection, with or without earlier messages in the session.
ChatInit ==
    /\ maxIterations \in 0..CallerIterBound
    /\ NoAgent
    /\ chat_pc = "idle"
    /\ data = Unbound
    /\ messages \in {<<>>, EarlierMessages}
    /\ frames = <<[type |-> "connection_established"]>>
    /\ NoTask /\ NoRerun /\ NoSecondAgent /\ NoDataset

notChatVars == <<taskVars, rerunVars, concVars, datasetVars>>

ChatNext ==
    \/ Receive /\ UNCHANGED notChatVars
    \/ GenerateChatTitle /\ UNCHANGED notChatVars
    \/ ChooseResponder /\ UNCHANGED notChatVars
    \/ Planning /\ UNCHANGED callerVars
    \/ LoopTest /\ UNCHANGED callerVars
    \/ Decide /\ UNCHANGED callerVars
    \/ Execute /\ UNCHANGED callerVars
    \/ Evaluate /\ UNCHANGED callerVars
    \/ Synthesize /\ UNCHANGED callerVars
    \/ AgentReturned /\ UNCHANGED notChatVars
    \/ AgentRaised /\ UNCHANGED notChatVars
    \/ SimpleRespond /\ UNCHANGED notChatVars

ChatSpec == ChatInit /\ [][ChatNext]_vars

\* The consumer awaits every step of the handler: a step that can be taken
\* is taken.
FairChatSpec == ChatSpec /\ WF_vars(ChatNext)

ErrorFrames == {i \in 1..Len(frames) : frames[i].type = "error"}

\* The rows saved after the user message in hand.
SavedSince ==
    LET users == {i \in 1..Len(messages) : messages[i].role = "user"}
        last == CHOOSE i \in users : \A j \in users : j <= i
    IN  {i \in 1..Len(messages) : i > last}

(* C28: when the run started by process_with_agent has raised (a           *)
(* transport failure or any other exception) and the handler has           *)
(* returned, the client was sent exactly one error frame, no agent message *)
(* of type 'report' was saved or broadcast for this user message, and the  *)
(* user message is still the last row saved; the step that handles the     *)
(* exception saves and deletes nothing.                                    *)
C28_FailedRunOneError ==
    /\ []((chat_pc = "returned" /\ RunRaised) =>
            /\ Cardinality(ErrorFrames) = 1
            /\ \A i \in ErrorFrames : frames[i].message = "Analysis failed"
            /\ \A i \in 1..Len(frames) :
                  ~(frames[i].type = "chat_message" /\ frames[i].message_type = "report")
            /\ messages # <<>>
            /\ messages[Len(messages)] = [role |-> "user", message_type |-> "text"]
            /\ SavedSince = {})
    /\ [][(chat_pc = "agent" /\ RunRaised) => messages' = messages]_vars
    /\ [][(chat_pc = "agent" /\ pc # "done") => messages' = messages]_vars

\* The run raised at the unguarded subscript of line 48 of agent_core.py,
\* in a session with earlier messages; the handler has returned.
C28_Witness ==
    /\ chat_pc = "returned"
    /\ outcome = "error"
    /\ Len(messages) = 3
    /\ Cardinality(ErrorFrames) = 1

\* The last typing indicator sent is 'on'.
TypingOn ==
    LET typing == {i \in 1..Len(frames) : frames[i].type = "typing"}
    IN  /\ typing # {}
        /\ frames[CHOOSE i \in typing : \A j \in typing : j <= i].is_typing

(* C29: a message for which a responder is chosen is handed to exactly     *)
(* one, the agentic run when a dataset id is given or an analysis keyword  *)
(* occurs in it, the simple responder otherwise; and every typing          *)
(* indicator 'on' is eventually followed by a typing indicator 'off'.      *)
C29_OnePathTypingEnds ==
    /\ [][chat_pc = "typing" =>
            IF Truthy(data.dataset_id)
               \/ \E k \in AnalysisKeywords : Contains(Lower(data.content), k)
            THEN chat_pc' = "agent" /\ pc' = "plan"
            ELSE chat_pc' = "simple" /\ pc' = "none"]_vars
    /\ [](chat_pc = "simple" => pc = "none")
    /\ (TypingOn ~> ~TypingOn)

---------------------------------------------------------------------------
(* process_dataset (data_manager/tasks.py), a Celery task with             *)
(* max_retries = 3, started by the upload (views.py, create) and by        *)
(* DatasetViewSet.reprocess. A task works on its own instance of the       *)
(* Dataset row, read by objects.get and written as a whole by save();      *)
(* tasks and the view run in different processes, so their database        *)
(* operations interleave.                                                  *)

\* @shared_task(bind=True, max_retries=3)
DatasetMaxRetries == 3

\* How many process_dataset tasks are started for the dataset: the
\* upload's and the reprocess requests'.
MaxTasks == 2

Tasks == 1..MaxTasks

\* file_type of the row: two the task reads, one it refuses.
FileTypes == {"csv", "xls", "pdf"}

\* What pd.read_csv / pd.read_excel yields: a frame, or an exception.
Reads ==
    {[ok |-> TRUE, rows |-> 2, columns |-> <<"region", "sales">>],
     [ok |-> TRUE, rows |-> 0, columns |-> <<"region">>],
     [ok |-> FALSE]}

NoDatasetTask ==
    [state |-> "none", step |-> "none", retries |-> 0, dataset |-> Unbound, error |-> ""]

\* process_dataset.delay(str(dataset.id))
Delayed ==
    [state |-> "queued", step |-> "none", retries |-> 0, dataset |-> Unbound, error |-> ""]

\* dataset = Dataset.objects.get(id=dataset_id)
DatasetGet(t) ==
    /\ dtask[t].state \in {"queued", "retry"}
    /\ dtask' = [dtask EXCEPT ![t].state = "running", ![t].step = "mark",
                              ![t].dataset = db, ![t].error = ""]
    /\ UNCHANGED db

\* dataset.status = 'processing'; dataset.save()
DatasetMarkProcessing(t) ==
    /\ dtask[t].state = "running" /\ dtask[t].step = "mark"
    /\ LET dataset == [dtask[t].dataset EXCEPT !.status = "processing"]
       IN  /\ db' = dataset
           /\ dtask' = [dtask EXCEPT ![t].step = "load", ![t].dataset = dataset]

\* Load the data and extract the basic information, up to
\* dataset.status = 'ready'; an exception goes to the handler.
DatasetLoad(t) ==
    /\ dtask[t].state = "running" /\ dtask[t].step = "load"
    /\ \E read \in Reads :
         LET dataset == dtask[t].dataset
         IN  IF dataset.file_type \notin {"csv", "xlsx", "xls"}
             THEN dtask' = [dtask EXCEPT ![t].step = "except",
                                         ![t].error = "Unsupported file type"]
             ELSE IF ~read.ok
             THEN dtask' = [dtask EXCEPT ![t].step = "except",
                                         ![t].error = "read failed"]
             ELSE dtask' = [dtask EXCEPT
                              ![t].step = "save",
                              ![t].dataset =
                                  [dataset EXCEPT !.row_count = PyInt(read.rows),
                                                  !.column_count = PyInt(Len(read.columns)),
                                                  !.columns = read.columns,
                                                  !.status = "ready"]]
    /\ UNCHANGED db

\* dataset.save(); return {'success': True, ...}
DatasetSaveReady(t) ==
    /\ dtask[t].state = "running" /\ dtask[t].step = "save"
    /\ db' = dtask[t].dataset
    /\ dtask' = [dtask EXCEPT ![t].state = "succeeded", ![t].step = "none"]

\* The handler that sets the status on its instance and does not save it.
DatasetExceptNoSave(t) ==
    /\ dtask[t].state = "running" /\ dtask[t].step = "except"
    /\ LET dataset == [dtask[t].dataset EXCEPT !.status = "error",
                                               !.error_message = dtask[t].error]
       IN  /\ UNCHANGED db
           /\ IF dtask[t].retries < DatasetMaxRetries
              THEN dtask' = [dtask EXCEPT ![t].state = "retry", ![t].step = "none",
                                          ![t].dataset = dataset,
                                          ![t].retries = dtask[t].retries + 1]
              ELSE dtask' = [dtask EXCEPT ![t].state = "failed", ![t].step = "none",
                                          ![t].dataset = dataset]

\* except Exception as e: dataset.status = 'error';
\* dataset.error_message = str(e); dataset.save();
\* raise self.retry(exc=e, countdown=60)
DatasetExcept(t) ==
    /\ dtask[t].state = "running" /\ dtask[t].step = "except"
    /\ LET dataset == [dtask[t].dataset EXCEPT !.status = "error",
                                               !.error_message = dtask[t].error]
       IN  /\ db' = dataset
           /\ IF dtask[t].retries < DatasetMaxRetries
              THEN dtask' = [dtask EXCEPT ![t].state = "retry", ![t].step = "none",
                                          ![t].dataset = dataset,
                                          ![t].retries = dtask[t].retries + 1]
              ELSE dtask' = [dtask EXCEPT ![t].state = "failed", ![t].step = "none",
                                          ![t].dataset = dataset]

\* DatasetViewSet.reprocess: status 'processing', error_message '', save,
\* and a new task.
Reprocess ==
    /\ \E t \in Tasks : dtask[t].state = "none"
    /\ LET t == CHOOSE u \in Tasks :
                   dtask[u].state = "none" /\ \A v \in Tasks : v < u => dtask[v].state # "none"
       IN  dtask' = [dtask EXCEPT ![t] = Delayed]
    /\ db' = [db EXCEPT !.status = "processing", !.error_message = ""]

\* The row the upload created, and the task it started.
DatasetInit ==
    /\ db \in {[file_type |-> f, status |-> "processing", error_message |-> "",
                row_count |-> PyNone, column_count |-> PyNone, columns |-> <<>>] :
               f \in FileTypes}
    /\ dtask = [t \in Tasks |-> IF t = 1 THEN Delayed ELSE NoDatasetTask]
    /\ maxIterations = 0
    /\ NoAgent
    /\ NoTask /\ NoRerun /\ NoSecondAgent /\ NoChat

notDatasetVars == <<runVars, taskVars, rerunVars, concVars, chatVars>>

DatasetNext ==
    \/ \E t \in Tasks : DatasetGet(t) /\ UNCHANGED notDatasetVars
    \/ \E t \in Tasks : DatasetMarkProcessing(t) /\ UNCHANGED notDatasetVars
    \/ \E t \in Tasks : DatasetLoad(t) /\ UNCHANGED notDatasetVars
    \/ \E t \in Tasks : DatasetSaveReady(t) /\ UNCHANGED notDatasetVars
    \/ \E t \in Tasks : DatasetExcept(t) /\ UNCHANGED notDatasetVars
    \/ Reprocess /\ UNCHANGED notDatasetVars

DatasetSpec == DatasetInit /\ [][DatasetNext]_vars

\* Attempt of task t ends in this step.
AttemptEnds(t) ==
    /\ dtask[t].state = "running"
    /\ dtask'[t].state # "running"

====
